---- MODULE Spec2Model ----
(***************************************************************************)
(* The session state machine of the nidmd dashboard                        *)
(* (src/src/main/python/dashboard.py): the Dashboard object's fields, the  *)
(* values of the layout's input components, and one handler per Dash       *)
(* callback.  A handler is a small step machine over the session; Spec     *)
(* runs each handler to its end in one action (requests served one at a    *)
(* time), SpecThreaded lets the steps of several requests interleave (the  *)
(* server thread pool of app.run_server).                                  *)
(***************************************************************************)
EXTENDS Integers, Sequences, FiniteSets, TLC

VARIABLES
    self,      \* the Dashboard object's fields (dcp1 .. imag)
    ui,        \* the layout's input components: setting, uploads, sampling time, buttons
    ev,        \* the handler that returned last, and what it returned
    threads    \* the requests being served: one frame per running handler

vars == <<self, ui, ev, threads>>

(***************************************************************************)
(* Values                                                                  *)
(***************************************************************************)

\* Python's None, for the object-valued fields and upload contents.
None == [tag |-> "None"]

\* A cleared number input (sampling-time, approx-deg, number-of-modes) and the
\* unselected RadioItems deliver None; the number-valued inputs use this value.
NoValue == 0 - 1

\* The three values of the "setting" RadioItems.
Analysis == 1
Comparison == 2
MatchModes == 3

Settings == {Analysis, Comparison, MatchModes}

\* The default of the sampling-time input, in hundredths of a second (0.72).
DefaultTime == 72

\* The default of the approx-deg and number-of-modes inputs.
DefaultApproxDeg == 5
DefaultNom == 5

\* Upload batches are numbered 1..NumBatches; Files(b) is what batch b holds.
NumBatches == 2

Batches == 1..NumBatches

\* progress grows by 100 with every Brain computation; the model stops
\* computing brains beyond this value.
MaxProgress == 200

\* One uploaded file: its name's suffix, the number of commas in its content
\* descriptor, the keys of a .mat container in iteration order (dunder: the
\* key begins with "__"; m: the matrix stored under it), the matrix a .csv
\* text parses to.
\* What np.genfromtxt makes of a text without data: an array without entries
\* (never None).  The matrices proper are numbered from 1.
EmptyArray == 0 - 2

MatFile(keys) == [suffix |-> ".mat", commas |-> 1, keys |-> keys, m |-> 0]
CsvFile(m, commas) == [suffix |-> ".csv", commas |-> commas, keys |-> <<>>, m |-> m]
TxtFile == [suffix |-> ".txt", commas |-> 1, keys |-> <<>>, m |-> 0]

MetaKeys ==
    << [dunder |-> TRUE, m |-> 0], [dunder |-> TRUE, m |-> 0], [dunder |-> TRUE, m |-> 0] >>

\* The files of the model by name, and what the browser sends as the content
\* of each: .mat containers holding one matrix, two matrices and none after
\* their metadata keys, a .csv table, a .csv text without data, a .csv file
\* whose content descriptor has two commas, and a file that is neither.
File(name) ==
    CASE name = "one.mat" -> MatFile(MetaKeys \o << [dunder |-> FALSE, m |-> 1] >>)
      [] name = "two.mat" ->
           MatFile(MetaKeys \o << [dunder |-> FALSE, m |-> 1], [dunder |-> FALSE, m |-> 3] >>)
      [] name = "meta.mat" -> MatFile(MetaKeys)
      [] name = "table.csv" -> CsvFile(2, 1)
      [] name = "empty.csv" -> CsvFile(EmptyArray, 1)
      [] name = "commas.csv" -> CsvFile(3, 2)
      [] name = "notes.txt" -> TxtFile

\* The filenames of batch b.  Batch 1 is well formed: a .mat file holding
\* matrix 1 after its metadata keys, and a .csv file that parses to matrix 2.
\* The other batches are not: a .mat file with metadata keys only, a .csv
\* file whose descriptor has two commas, a file that is neither .mat nor .csv.
Files(b) ==
    IF b = 1 THEN << "one.mat", "table.csv" >>
    ELSE IF b % 3 = 2 THEN << "meta.mat" >>
    ELSE IF b % 3 = 0 THEN << "commas.csv" >>
    ELSE << "notes.txt" >>

\* The filename list an Upload component holds after batch b was dropped on
\* it; the contents list goes with it.
Contents(b) == [tag |-> "contents", files |-> Files(b)]

\* zip(contents, files): the files sent, content and name.
Zipped(contents) == [i \in 1..Len(contents.files) |-> File(contents.files[i])]

(***************************************************************************)
(* _parse_files: the ingestor                                              *)
(***************************************************************************)

ErrNoMatrix == "Invalid .mat file, no matrices inside."
ErrCsv == "Problem reading the csv file."
ErrUnpack == "ValueError: too many values to unpack"
ErrMissingReference == "Please upload Reference group before Match group."
ErrTime == "TypeError: float() argument must be a string or a number"
ErrApprox == "TypeError: unsupported operand type(s) for /"
ErrLibrary == "error raised by nidmd"
ErrAttribute == "AttributeError: 'NoneType' object has no attribute"
ErrTable == "IndexError: list index out of range"

\* The key loop as it is not: it stops at the first matrix.
RECURSIVE FirstMatrix(_, _)
FirstMatrix(keys, d) ==
    IF keys = <<>> THEN d
    ELSE IF ~Head(keys).dunder THEN Head(keys).m
    ELSE FirstMatrix(Tail(keys), d)

\* The loop over matfile.keys(): d ends as the entry of the last key that
\* does not begin with "__" (the continue does not leave the loop).
RECURSIVE LastMatrix(_, _)
LastMatrix(keys, d) ==
    IF keys = <<>> THEN d
    ELSE LastMatrix(Tail(keys), IF ~Head(keys).dunder THEN Head(keys).m ELSE d)

\* One file of the batch: [ok, d] or [ok |-> FALSE, error]; d = 0 is None.
ParseFile(file) ==
    IF file.suffix = ".mat" THEN
        IF file.commas # 1 THEN [ok |-> FALSE, d |-> 0, error |-> ErrUnpack]
        ELSE LET d == LastMatrix(file.keys, 0) IN
             IF d = 0 THEN [ok |-> FALSE, d |-> 0, error |-> ErrNoMatrix]
             ELSE [ok |-> TRUE, d |-> d, error |-> ""]
    ELSE IF file.suffix = ".csv" THEN
        IF file.commas # 1 THEN [ok |-> FALSE, d |-> 0, error |-> ErrUnpack]
        ELSE IF file.m = 0 THEN [ok |-> FALSE, d |-> 0, error |-> ErrCsv]
        ELSE [ok |-> TRUE, d |-> file.m, error |-> ""]
    ELSE [ok |-> TRUE, d |-> 0, error |-> ""]

FileNames ==
    {"one.mat", "two.mat", "meta.mat", "table.csv", "empty.csv", "commas.csv", "notes.txt"}

\* The loop body on each file of the model, computed once.
Extracted == [name \in FileNames |-> ParseFile(File(name))]

\* The loop over zip(contents, files): data gets one entry per file, the
\* first failing file ends the loop with its error.
RECURSIVE ParseLoop(_, _)
ParseLoop(files, data) ==
    IF files = <<>> THEN [ok |-> TRUE, data |-> data, error |-> ""]
    ELSE CHOOSE r \in {IF ~p.ok THEN [ok |-> FALSE, data |-> data, error |-> p.error]
                        ELSE ParseLoop(Tail(files), Append(data, p.d)) :
                       p \in {Extracted[Head(files)]}} : TRUE

\* The sizes of the two atlases nidmd knows.
AtlasSizes == {360, 400}

\* The atlas nidmd derives from the data: two atlases, by the first matrix.
AtlasOf(data) == [size |-> IF data[1] % 2 = 1 THEN 360 ELSE 400]

\* The library rejects an empty data list, and a None or an array without
\* entries among the matrices.
Rejected(data) == data = <<>> \/ (\E i \in 1..Len(data) : data[i] \in {0, EmptyArray})

\* Decomposition(data=data, sampling_time=sampling_time), not yet run.
Decomposition(data, sampling_time) ==
    [tag |-> "Decomposition", data |-> data, sampling_time |-> sampling_time,
     atlas |-> AtlasOf(data), ran |-> FALSE]

\* _parse_files(contents, files, float(time)) on session s.  raises: the
\* Decomposition call of this request raises.  Returns the session (atlas
\* written only when the Decomposition was built), the value returned or the
\* error raised, and whether the library was called.
parse_files(s, contents, time, raises) ==
    IF time = NoValue
    THEN [s |-> s, ok |-> FALSE, dcp |-> None, error |-> ErrTime, called |-> FALSE,
          data |-> <<>>]
    ELSE LET p == ParseLoop(contents.files, <<>>) IN
         IF ~p.ok
         THEN [s |-> s, ok |-> FALSE, dcp |-> None, error |-> p.error, called |-> FALSE,
               data |-> p.data]
         ELSE IF raises \/ Rejected(p.data)
         THEN [s |-> s, ok |-> FALSE, dcp |-> None, error |-> ErrLibrary, called |-> TRUE,
               data |-> p.data]
         ELSE LET dcp == Decomposition(p.data, time) IN
              [s |-> [s EXCEPT !.atlas = dcp.atlas], ok |-> TRUE, dcp |-> dcp,
               error |-> "", called |-> TRUE, data |-> p.data]

(***************************************************************************)
(* The session and the layout                                              *)
(***************************************************************************)

\* Dashboard.__init__: the fields of the session at application start.
\* logfile is the handle of log.log opened for reading: the lines the
\* logging module appended to the file since the application started, and
\* how many of them the handle has read.
InitSelf ==
    [dcp1 |-> None, dcp2 |-> None, match_group |-> None,
     match_df |-> None, match_x |-> None, match_y |-> None,
     atlas |-> None, progress |-> 0, valid |-> FALSE, imag |-> FALSE,
     logfile |-> [lines |-> << >>, read |-> 0]]

\* The children of the 'log' Div of a fresh layout.
AppStart == [tag |-> "P", children |-> "---- APP START ----"]

\* _get_app_layout: the input components of a fresh layout.  run and reset
\* are the buttons' n_clicks (NoValue until the first click).
InitUI ==
    [setting |-> NoValue, contents1 |-> None, contents2 |-> None,
     time |-> DefaultTime, run |-> NoValue, reset |-> NoValue,
     log |-> [tag |-> "children", items |-> << AppStart >>]]

\* What a handler returns when it raises PreventUpdate.
Prevented(h) == [h |-> h, prevented |-> TRUE, raised |-> ""]

\* The frame of a handler that returns ret.
Done(f, ret) == [f EXCEPT !.pc = "done", !.ret = ret]

(***************************************************************************)
(* upload                                                                  *)
(***************************************************************************)

\* The calls of upload that may raise whatever the session holds: the nidmd
\* calls (Decomposition, run, compute_match) and the formatting of
\* _create_table, at most seven in one request.
UploadCalls ==
    {"Decomposition1", "run1", "table1", "DecompositionM", "runM", "compute_match", "tableM"}

\* Python floats are IEEE 754 doubles: a significand of Precision binary
\* digits and an exponent.  A double is modelled as [m, e]: the digits of the
\* significand, most significant first and beginning with 1, and the weight
\* 2^e of its last digit; zero has no digits.
Precision == 53

\* The binary digits of the natural number n, most significant first.
RECURSIVE Binary(_)
Binary(n) == IF n = 0 THEN <<>> ELSE Append(Binary(n \div 2), n % 2)

\* The natural number whose binary digits are bits.
RECURSIVE Value(_)
Value(bits) ==
    IF bits = <<>> THEN 0
    ELSE 2 * Value(SubSeq(bits, 1, Len(bits) - 1)) + bits[Len(bits)]

\* bits without its leading zeros.
RECURSIVE Normalized(_)
Normalized(bits) ==
    IF bits = <<>> \/ Head(bits) = 1 THEN bits ELSE Normalized(Tail(bits))

\* 2^k modulo den, by repeated squaring.
RECURSIVE PowerOfTwo(_, _)
PowerOfTwo(k, den) ==
    IF k = 0 THEN 1 % den
    ELSE CHOOSE p \in {(h * h * (IF k % 2 = 1 THEN 2 ELSE 1)) % den :
                       h \in {PowerOfTwo(k \div 2, den)}} : TRUE

\* What long division of r by den (r < den) leaves after k binary digits.
Remainder(r, den, k) == (r * PowerOfTwo(k, den)) % den

\* The first k binary digits of r / den after the point (r < den), and the
\* remainder they leave.
Digits(r, den, k) ==
    [bits |-> [i \in 1..k |-> IF 2 * Remainder(r, den, i - 1) >= den THEN 1 ELSE 0],
     rem |-> Remainder(r, den, k)]

\* bits plus one, in the same number of digits; carry when that overflows.
Increment(bits) ==
    IF \A i \in 1..Len(bits) : bits[i] = 1
    THEN [bits |-> [i \in 1..Len(bits) |-> 0], carry |-> TRUE]
    ELSE LET z == CHOOSE i \in 1..Len(bits) :
                      bits[i] = 0 /\ \A j \in (i + 1)..Len(bits) : bits[j] = 1
         IN [bits |-> [i \in 1..Len(bits) |->
                          IF i < z THEN bits[i] ELSE IF i = z THEN 1 ELSE 0],
             carry |-> FALSE]

\* The double nearest to the exact value bits * 2^e (+ a nonzero part below
\* the last digit when sticky), ties to the even significand: the rounding
\* of every double operation.  bits begins with 1 or is empty.
Round(bits, e, sticky) ==
    IF bits = <<>> THEN [m |-> <<>>, e |-> 0]
    ELSE IF Len(bits) <= Precision
    THEN [m |-> bits \o [i \in 1..(Precision - Len(bits)) |-> 0],
          e |-> e - (Precision - Len(bits))]
    ELSE LET kept == SubSeq(bits, 1, Precision)
             half == bits[Precision + 1] = 1
             below == sticky \/ \E i \in (Precision + 2)..Len(bits) : bits[i] = 1
             up == half /\ (below \/ kept[Precision] = 1)
             inc == Increment(kept)
             dropped == Len(bits) - Precision
         IN IF ~up THEN [m |-> kept, e |-> e + dropped]
            ELSE IF inc.carry THEN [m |-> <<1>> \o Tail(inc.bits), e |-> e + dropped + 1]
            ELSE [m |-> inc.bits, e |-> e + dropped]

\* num / den as Python computes it for an int num and a float den holding
\* the integer den <= 128: the double nearest to the quotient.  A nonzero
\* quotient is at least 1/128, so Precision + 8 digits after the point hold
\* its significand and the digit below it.
Divide(num, den) ==
    LET q == Digits(num % den, den, Precision + 8)
    IN Round(Normalized(Binary(num \div den) \o q.bits), 0 - (Precision + 8), q.rem # 0)

\* bits * n + carry: the last Len(bits) digits of the sum and what is carried
\* beyond them.  The low half of the digits is multiplied first and its carry
\* goes into the high half.
RECURSIVE MultiplyDigits(_, _, _)
MultiplyDigits(bits, n, carry) ==
    IF bits = <<>> THEN [bits |-> <<>>, carry |-> carry]
    ELSE IF Len(bits) = 1
    THEN [bits |-> <<(bits[1] * n + carry) % 2>>, carry |-> (bits[1] * n + carry) \div 2]
    ELSE CHOOSE p \in {CHOOSE q \in {[bits |-> high.bits \o low.bits, carry |-> high.carry] :
                                      high \in {MultiplyDigits(SubSeq(bits, 1, Len(bits) \div 2),
                                                               n, low.carry)}} : TRUE :
                       low \in {MultiplyDigits(SubSeq(bits, Len(bits) \div 2 + 1, Len(bits)),
                                               n, carry)}} : TRUE

\* x * n for a double x and an int n: the double nearest to the product.
Multiply(x, n) ==
    LET p == MultiplyDigits(x.m, n, 0)
    IN Round(Normalized(Binary(p.carry) \o p.bits), x.e, FALSE)

\* int(x) for a double x >= 0: the digits of weight below one are dropped.
Truncate(x) ==
    IF x.m = <<>> \/ Precision + x.e <= 0 THEN 0
    ELSE IF x.e >= 0 THEN Value(x.m \o [i \in 1..x.e |-> 0])
    ELSE Value(SubSeq(x.m, 1, Precision + x.e))

\* a + b + carry for digit strings of one length: the digits of the sum and
\* what is carried beyond them, the low half added first.
RECURSIVE AddDigits(_, _, _)
AddDigits(a, b, carry) ==
    IF a = <<>> THEN [bits |-> <<>>, carry |-> carry]
    ELSE IF Len(a) = 1
    THEN [bits |-> <<(a[1] + b[1] + carry) % 2>>, carry |-> (a[1] + b[1] + carry) \div 2]
    ELSE CHOOSE p \in {CHOOSE q \in {[bits |-> high.bits \o low.bits, carry |-> high.carry] :
                                      high \in {AddDigits(SubSeq(a, 1, Len(a) \div 2),
                                                          SubSeq(b, 1, Len(a) \div 2),
                                                          low.carry)}} : TRUE :
                       low \in {AddDigits(SubSeq(a, Len(a) \div 2 + 1, Len(a)),
                                          SubSeq(b, Len(a) \div 2 + 1, Len(a)), carry)}} : TRUE

\* The digits of x at the weight 2^e of the last digit (e <= x.e), in n
\* digits (n at least their number): zeros before and after the significand.
Aligned(x, e, n) ==
    [i \in 1..(n - Len(x.m) - (x.e - e)) |-> 0] \o x.m \o [i \in 1..(x.e - e) |-> 0]

\* x + y of the reals: the digits of the sum, as many as it takes, and the
\* weight of the last.
ExactSum(x, y) ==
    LET e == IF x.e <= y.e THEN x.e ELSE y.e
        n == IF Len(x.m) + x.e >= Len(y.m) + y.e
             THEN Len(x.m) + (x.e - e) ELSE Len(y.m) + (y.e - e)
    IN  CHOOSE s \in {[m |-> Normalized((IF r.carry = 1 THEN <<1>> ELSE <<>>) \o r.bits), e |-> e] :
                      r \in {AddDigits(Aligned(x, e, n), Aligned(y, e, n), 0)}} : TRUE

\* x + y for doubles x, y >= 0: the double nearest to the sum.
Add(x, y) == CHOOSE r \in {Round(s.m, s.e, FALSE) : s \in {ExactSum(x, y)}} : TRUE

\* float(n) for a natural number n below 2^Precision.
Float(n) == Round(Binary(n), 0, FALSE)

\* int(approx_deg / 100.0 * size)
NoModes(approx_deg, size) == Truncate(Multiply(Divide(approx_deg, 100), size))

\* NoModes at every percentage and atlas size, computed once.
ModeCounts == [d \in 0..100 |-> [size \in AtlasSizes |-> NoModes(d, size)]]

\* dcp1.compute_match(match_group, no_modes): the table and the two series.
ComputeMatch(reference, target, no_modes) ==
    [df |-> [tag |-> "match_df", reference |-> reference.data, target |-> target.data,
             no_modes |-> no_modes],
     x |-> [tag |-> "match_x", reference |-> reference.data, target |-> target.data,
            no_modes |-> no_modes],
     y |-> [tag |-> "match_y", reference |-> reference.data, target |-> target.data,
            no_modes |-> no_modes]]

\* The frame of one upload request: the callback's arguments as the browser
\* sent them, its locals, and which of its external calls raises (fail: the
\* k-th call made, 0 for none; calls: the calls made so far).
UploadFrame(contents1, contents2, time, setting, approx_deg, fail) ==
    [h |-> "upload",
     pc |-> IF contents1 = None /\ contents2 = None THEN "prevent"
            ELSE IF contents1 # None THEN "parse1" ELSE "slot2",
     contents1 |-> contents1, contents2 |-> contents2, time |-> time,
     setting |-> setting, approx_deg |-> approx_deg, fail |-> fail, calls |-> 0,
     ret |-> None, data |-> <<>>, tab1 |-> FALSE, tab2 |-> FALSE,
     message |-> "", error |-> FALSE, at |-> "", prevented |-> FALSE]

\* except Exception as e: message = str(e); error = True (at: the statement
\* that raised, as the logged traceback names it).
Raise(f, msg) == [f EXCEPT !.pc = "done", !.message = msg, !.error = TRUE, !.at = f.pc]

Goto(f, pc) == [f EXCEPT !.pc = pc]

\* The next external call of the request is made; it raises if it is the
\* fail-th.
Called(f) == [f EXCEPT !.calls = f.calls + 1]
Raises(f) == f.fail = f.calls + 1

\* A Decomposition whose run() has returned.
Ran(dcp) == [dcp EXCEPT !.ran = TRUE]

\* self.<field> = _parse_files(contents, names, float(time)), up to the call's
\* return: the assignment is the next statement group.
ParseStep(s, f, contents, next) ==
    LET r == parse_files(s, contents, f.time, Raises(f))
        g == [IF r.called THEN Called(f) ELSE f EXCEPT !.data = r.data]
    IN  IF r.ok THEN [s |-> r.s, f |-> [g EXCEPT !.pc = next, !.ret = r.dcp]]
        ELSE [s |-> s, f |-> Raise(g, r.error)]

\* The assignment as it is not: a field already populated keeps its value.
StoreOnce(s, f, field, next) ==
    [s |-> [s EXCEPT ![field] = IF s[field] = None THEN f.ret ELSE s[field]],
     f |-> [f EXCEPT !.pc = next, !.ret = None]]

\* self.<field> = <the Decomposition _parse_files returned>
Store(s, f, field, next) ==
    [s |-> [s EXCEPT ![field] = f.ret], f |-> [f EXCEPT !.pc = next, !.ret = None]]

\* run() as it is not: a successful run also marks the session valid.
RunStepValidates(s, f, field, next) ==
    IF s[field] = None THEN [s |-> s, f |-> Raise(f, ErrAttribute)]
    ELSE IF Raises(f) THEN [s |-> s, f |-> Raise(Called(f), ErrLibrary)]
    ELSE [s |-> [s EXCEPT ![field] = Ran(s[field]), !.valid = TRUE],
          f |-> Goto(Called(f), next)]

\* self.<field>.run()
RunStep(s, f, field, next) ==
    IF s[field] = None THEN [s |-> s, f |-> Raise(f, ErrAttribute)]
    ELSE IF Raises(f) THEN [s |-> s, f |-> Raise(Called(f), ErrLibrary)]
    ELSE [s |-> [s EXCEPT ![field] = Ran(s[field])], f |-> Goto(Called(f), next)]

\* df = self.<field>.df[[...]] (or self.match_df.copy()); tab = _create_table(df, ...)
TableStep(s, f, field, tab, next) ==
    IF s[field] = None THEN [s |-> s, f |-> Raise(f, ErrAttribute)]
    ELSE IF Raises(f) THEN [s |-> s, f |-> Raise(Called(f), ErrTable)]
    ELSE [s |-> s, f |-> [Called(f) EXCEPT !.pc = next, ![tab] = TRUE]]

\* if contents2 is not None and (self.dcp2 is None or self.match_group is None)
Slot2Guard(s, f) == f.contents2 # None /\ (s.dcp2 = None \/ s.match_group = None)

\* One statement group of upload on session s: [s, f].
UploadStep(s, f) ==
    CASE f.pc = "prevent" ->
           [s |-> s, f |-> [f EXCEPT !.pc = "done", !.prevented = TRUE]]
      [] f.pc = "parse1" -> ParseStep(s, f, f.contents1, "store1")
      [] f.pc = "store1" -> Store(s, f, "dcp1", "run1")
      [] f.pc = "run1" -> RunStep(s, f, "dcp1", "table1")
      [] f.pc = "table1" -> TableStep(s, f, "dcp1", "tab1", "slot2")
      [] f.pc = "slot2" ->
           IF f.setting # Analysis /\ Slot2Guard(s, f)
           THEN [s |-> s,
                 f |-> Goto(f, IF f.setting = Comparison THEN "parse2"
                               ELSE IF f.setting = MatchModes THEN "parseM" ELSE "done")]
           ELSE [s |-> s, f |-> Goto(f, "done")]
      [] f.pc = "parse2" -> ParseStep(s, f, f.contents2, "store2")
      [] f.pc = "store2" -> Store(s, f, "dcp2", "run2")
      [] f.pc = "run2" -> RunStep(s, f, "dcp2", "table2")
      [] f.pc = "table2" -> TableStep(s, f, "dcp2", "tab2", "done")
      [] f.pc = "parseM" -> ParseStep(s, f, f.contents2, "storeM")
      [] f.pc = "storeM" -> Store(s, f, "match_group", "runM")
      [] f.pc = "runM" -> RunStep(s, f, "match_group", "checkref")
      [] f.pc = "checkref" ->
           IF s.dcp1 = None THEN [s |-> s, f |-> Raise(f, ErrMissingReference)]
           ELSE [s |-> s, f |-> Goto(f, "match")]
      [] f.pc = "match" ->
           IF f.approx_deg = NoValue THEN [s |-> s, f |-> Raise(f, ErrApprox)]
           ELSE IF s.match_group = None \/ s.dcp1 = None
                THEN [s |-> s, f |-> Raise(f, ErrAttribute)]
           ELSE IF Raises(f) THEN [s |-> s, f |-> Raise(Called(f), ErrLibrary)]
           ELSE [s |-> s,
                 f |-> [Called(f) EXCEPT
                           !.pc = "store_df",
                           !.ret = ComputeMatch(s.dcp1, s.match_group,
                                                ModeCounts[f.approx_deg]
                                                          [s.match_group.atlas.size])]]
      [] f.pc = "store_df" ->
           [s |-> [s EXCEPT !.match_df = f.ret.df], f |-> Goto(f, "store_x")]
      [] f.pc = "store_x" ->
           [s |-> [s EXCEPT !.match_x = f.ret.x], f |-> Goto(f, "store_y")]
      [] f.pc = "store_y" ->
           [s |-> [s EXCEPT !.match_y = f.ret.y], f |-> [f EXCEPT !.pc = "tableM", !.ret = None]]
      [] f.pc = "tableM" -> TableStep(s, f, "match_df", "tab2", "done")

\* What upload returns: the import alert (message, shown when error) and the
\* two tables.
UploadReturn(f) ==
    [h |-> "upload", prevented |-> f.prevented, raised |-> "",
     message |-> f.message, error |-> f.error, at |-> f.at,
     tab1 |-> f.tab1, tab2 |-> f.tab2]

(***************************************************************************)
(* validate, rst, imag_switch, input_setting                               *)
(***************************************************************************)

ValidateFrame(n, setting) ==
    [h |-> "validate", pc |-> "validate", ret |-> None, n |-> n, setting |-> setting]

\* validate as it is not: MatchModes asks for the reference group only.
DeficienciesWithoutMatch(s, setting) ==
    IF setting # NoValue THEN
        IF setting = Analysis THEN
            IF s.dcp1 = None THEN << "No file(s) chosen. " >> ELSE <<>>
        ELSE IF setting = Comparison THEN
            IF s.dcp1 = None \/ s.dcp2 = None
            THEN << IF s.dcp2 = None THEN "Group 2 missing. " ELSE "Group 1 missing. " >>
            ELSE <<>>
        ELSE IF s.dcp1 = None THEN << "Reference group missing. " >>
        ELSE <<>>
    ELSE << "No setting chosen. " >>

\* The deficiency message before "Check log for more info.": one part per
\* message += of the branch taken.
Deficiencies(s, setting) ==
    IF setting # NoValue THEN
        IF setting = Analysis THEN
            IF s.dcp1 = None THEN << "No file(s) chosen. " >> ELSE <<>>
        ELSE IF setting = Comparison THEN
            IF s.dcp1 = None \/ s.dcp2 = None
            THEN << IF s.dcp2 = None THEN "Group 2 missing. " ELSE "Group 1 missing. " >>
            ELSE <<>>
        ELSE IF setting = MatchModes THEN
            (IF s.dcp1 = None THEN << "Reference group missing. " >> ELSE <<>>)
            \o (IF s.match_df = None THEN << "Match group is loading. Please wait. " >> ELSE <<>>)
        ELSE IF s.atlas = None THEN << "Parsing unsuccessful, no atlas found. " >>
        ELSE <<>>
    ELSE << "No setting chosen. " >>

ValidateStep(s, f) ==
    IF f.n = NoValue
    THEN [s |-> s, f |-> Done(f, Prevented("validate"))]
    ELSE LET parts == Deficiencies(s, f.setting)
             error == parts # <<>>
         IN  [s |-> IF error THEN s ELSE [s EXCEPT !.valid = TRUE],
              f |-> Done(f, [h |-> "validate", prevented |-> FALSE, raised |-> "",
                             message |-> IF error
                                         THEN Append(parts, "Check log for more info.")
                                         ELSE <<>>,
                             error |-> error])]

RstFrame(n) == [h |-> "rst", pc |-> "rst", ret |-> None, n |-> n]

\* rst as it is not: the imaginary-values flag survives.
RstFieldsKeepImag(s) ==
    [s EXCEPT !.dcp1 = None, !.dcp2 = None, !.match_group = None,
              !.match_df = None, !.match_x = None, !.match_y = None,
              !.atlas = None, !.progress = 0, !.valid = FALSE]

\* rst as it is not: valid survives.
RstFieldsKeepValid(s) ==
    [s EXCEPT !.dcp1 = None, !.dcp2 = None, !.match_group = None,
              !.match_df = None, !.match_x = None, !.match_y = None,
              !.atlas = None, !.progress = 0, !.imag = FALSE]

\* rst as it is not: the match series survive.
RstFieldsKeepMatchSeries(s) ==
    [s EXCEPT !.dcp1 = None, !.dcp2 = None, !.match_group = None,
              !.match_df = None,
              !.atlas = None, !.progress = 0, !.valid = FALSE, !.imag = FALSE]

\* rst: the ten assignments.
RstFields(s) ==
    [s EXCEPT !.dcp1 = None, !.dcp2 = None, !.match_group = None,
              !.match_df = None, !.match_x = None, !.match_y = None,
              !.atlas = None, !.progress = 0, !.valid = FALSE, !.imag = FALSE]

RstStep(s, f) ==
    IF f.n = NoValue
    THEN [s |-> s, f |-> Done(f, Prevented("rst"))]
    ELSE [s |-> RstFields(s),
          f |-> Done(f, [h |-> "rst", prevented |-> FALSE, raised |-> "", layout |-> InitUI])]

\* switch: the Checklist's value, [] or [1].
ImagFrame(switch) == [h |-> "imag_switch", pc |-> "imag_switch", ret |-> None, switch |-> switch]

ImagStep(s, f) ==
    [s |-> [s EXCEPT !.imag = (f.switch = << 1 >>)],
     f |-> Done(f, [h |-> "imag_switch", prevented |-> FALSE, raised |-> "",
                    imag |-> (f.switch = << 1 >>)])]

SettingFrame(value) == [h |-> "input_setting", pc |-> "input_setting", ret |-> None, value |-> value]

\* input_setting with the approximation-degree input shown whenever upload
\* region 2 is.
InputSettingApproxWithSecond(value) ==
    IF value = NoValue THEN [upload1 |-> FALSE, upload2 |-> FALSE, approx |-> FALSE]
    ELSE IF value = Analysis THEN [upload1 |-> TRUE, upload2 |-> FALSE, approx |-> FALSE]
    ELSE IF value = Comparison THEN [upload1 |-> TRUE, upload2 |-> TRUE, approx |-> TRUE]
    ELSE IF value = MatchModes THEN [upload1 |-> TRUE, upload2 |-> TRUE, approx |-> TRUE]
    ELSE None

\* input_setting: which of upload region 1, upload region 2 and the
\* approximation-degree input are shown.
InputSetting(value) ==
    IF value = NoValue THEN [upload1 |-> FALSE, upload2 |-> FALSE, approx |-> FALSE]
    ELSE IF value = Analysis THEN [upload1 |-> TRUE, upload2 |-> FALSE, approx |-> FALSE]
    ELSE IF value = Comparison THEN [upload1 |-> TRUE, upload2 |-> TRUE, approx |-> FALSE]
    ELSE IF value = MatchModes THEN [upload1 |-> TRUE, upload2 |-> TRUE, approx |-> TRUE]
    ELSE None

SettingStep(s, f) ==
    [s |-> s,
     f |-> Done(f, [h |-> "input_setting", prevented |-> FALSE, raised |-> "",
                    shown |-> InputSetting(f.value)])]

(***************************************************************************)
(* The figure handlers                                                     *)
(***************************************************************************)

\* dcp.df, as handed to the renderer.
Df(dcp) == [tag |-> "df", data |-> dcp.data, ran |-> dcp.ran]

\* A handler whose error is not caught: the callback fails with it.
Escaped(h, rendered, error) ==
    [h |-> h, prevented |-> FALSE, raised |-> error, rendered |-> rendered]

Rendered(h, rendered) ==
    [h |-> h, prevented |-> FALSE, raised |-> "", rendered |-> rendered]

\* _filter_spectre: the arguments of Spectre(...), or the error raised.
FilterSpectre(s) ==
    IF s.dcp1 = None THEN [ok |-> FALSE, call |-> None]
    ELSE IF s.dcp2 # None
         THEN [ok |-> TRUE,
               call |-> [fig |-> "Spectre", df1 |-> Df(s.dcp1),
                         labels |-> << "Group 1", "Group 2" >>, df2 |-> Df(s.dcp2)]]
    ELSE IF s.match_group # None
         THEN [ok |-> TRUE,
               call |-> [fig |-> "Spectre", df1 |-> Df(s.dcp1),
                         labels |-> << "Reference", "Match" >>, df2 |-> Df(s.match_group)]]
    ELSE [ok |-> TRUE,
          call |-> [fig |-> "Spectre", df1 |-> Df(s.dcp1), labels |-> << "" >>, df2 |-> None]]

\* raises: the renderer (Spectre, TimePlot, Radar of nidmd) raises in this
\* request.
SpectreFrame(n, raises) ==
    [h |-> "compute_spectre", pc |-> "compute_spectre", ret |-> None, n |-> n, raises |-> raises]

\* compute_spectre as it is not: gated on the click alone.
SpectreStepUngated(s, f) ==
    IF f.n = NoValue THEN [s |-> s, f |-> Done(f, Prevented(f.h))]
    ELSE IF s.match_group = None THEN
        LET a == FilterSpectre(s) IN
        [s |-> s, f |-> Done(f, IF ~a.ok THEN Escaped(f.h, None, ErrAttribute)
                                ELSE IF f.raises THEN Escaped(f.h, a.call, ErrLibrary)
                                ELSE Rendered(f.h, a.call))]
    ELSE IF s.match_x = None \/ s.match_y = None
         THEN [s |-> s, f |-> Done(f, Escaped(f.h, None, "AssertionError"))]
    ELSE LET call == [fig |-> "Spectre.correlation",
                      Approximated |-> s.match_x, Real |-> s.match_y]
         IN  [s |-> s,
              f |-> Done(f, IF f.raises THEN Escaped(f.h, call, ErrLibrary)
                            ELSE Rendered(f.h, call))]

\* compute_spectre that never plots the correlation.
SpectreStepUnmatched(s, f) ==
    IF f.n = NoValue \/ ~s.valid THEN [s |-> s, f |-> Done(f, Prevented(f.h))]
    ELSE LET a == FilterSpectre(s) IN
         [s |-> s, f |-> Done(f, IF ~a.ok THEN Escaped(f.h, None, ErrAttribute)
                                 ELSE IF f.raises THEN Escaped(f.h, a.call, ErrLibrary)
                                 ELSE Rendered(f.h, a.call))]

SpectreStep(s, f) ==
    IF f.n = NoValue \/ ~s.valid THEN [s |-> s, f |-> Done(f, Prevented(f.h))]
    ELSE IF s.match_group = None THEN
        LET a == FilterSpectre(s) IN
        [s |-> s, f |-> Done(f, IF ~a.ok THEN Escaped(f.h, None, ErrAttribute)
                                ELSE IF f.raises THEN Escaped(f.h, a.call, ErrLibrary)
                                ELSE Rendered(f.h, a.call))]
    ELSE IF s.match_x = None \/ s.match_y = None
         THEN [s |-> s, f |-> Done(f, Escaped(f.h, None, "AssertionError"))]
    ELSE LET call == [fig |-> "Spectre.correlation",
                      Approximated |-> s.match_x, Real |-> s.match_y]
         IN  [s |-> s,
              f |-> Done(f, IF f.raises THEN Escaped(f.h, call, ErrLibrary)
                            ELSE Rendered(f.h, call))]

TimeplotFrame(n, nom, raises) ==
    [h |-> "compute_timeplot", pc |-> "compute_timeplot", ret |-> None, n |-> n, nom |-> nom,
     raises |-> raises]

\* TimePlot(*_filter_time()), then t.figure(nom + 1).
TimeplotStep(s, f) ==
    IF f.n = NoValue \/ ~s.valid THEN [s |-> s, f |-> Done(f, Prevented(f.h))]
    ELSE IF s.dcp1 = None THEN [s |-> s, f |-> Done(f, Escaped(f.h, None, ErrAttribute))]
    ELSE LET call == [fig |-> "TimePlot", df1 |-> Df(s.dcp1),
                      df2 |-> IF s.dcp2 # None THEN Df(s.dcp2) ELSE None]
         IN  [s |-> s,
              f |-> Done(f, IF f.raises THEN Escaped(f.h, call, ErrLibrary)
                            ELSE IF f.nom = NoValue THEN Escaped(f.h, call, "TypeError")
                            ELSE Rendered(f.h, call))]

RadarFrame(n, nom, raises) ==
    [h |-> "compute_radar", pc |-> "compute_radar", ret |-> None, n |-> n, nom |-> nom,
     raises |-> raises]

\* Radar(*_filter_radar()), then r.figure(self.imag, nom + 1).
RadarStep(s, f) ==
    IF f.n = NoValue \/ ~s.valid THEN [s |-> s, f |-> Done(f, Prevented(f.h))]
    ELSE IF s.dcp1 = None THEN [s |-> s, f |-> Done(f, Escaped(f.h, None, ErrAttribute))]
    ELSE IF s.dcp2 # None /\ s.dcp1.atlas # s.dcp2.atlas
         THEN [s |-> s, f |-> Done(f, Escaped(f.h, None, "AssertionError"))]
    ELSE LET call == [fig |-> "Radar", df1 |-> Df(s.dcp1), atlas |-> s.dcp1.atlas,
                      df2 |-> IF s.dcp2 # None THEN Df(s.dcp2) ELSE None]
         IN  [s |-> s,
              f |-> Done(f, IF f.raises THEN Escaped(f.h, call, ErrLibrary)
                            ELSE IF f.nom = NoValue THEN Escaped(f.h, call, "TypeError")
                            ELSE Rendered(f.h, call))]

BrainFrame(n, nom) ==
    [h |-> "compute_brain", pc |-> "gate", ret |-> None, n |-> n, nom |-> nom,
     mode |-> 1, brains |-> 0, tmp |-> 0, call |-> None, doubles |-> FALSE]

\* What compute_brain answers with: the number of Brain figures built and the
\* arguments of the last Brain(*_filter_brain(mode)).
BrainReturn(f, error) ==
    [h |-> f.h, prevented |-> FALSE, raised |-> error, rendered |-> f.brains, call |-> f.call]

\* 90.0 / nom, for the mode counts of this model (divisors of 90).
PerMode(nom) == 90 \div nom

\* The largest number of modes asked for where progress is held as a double.
MaxNom == 7

\* 90.0 / nom as a double, at every mode count, computed once.
PerModeDoubles == [nom \in 1..MaxNom |-> Divide(90, nom)]

\* compute_brain, statement by statement; self.progress += x is a load and a
\* store.
BrainStep(s, f) ==
    CASE f.pc = "gate" ->
           IF f.n = NoValue \/ ~s.valid THEN [s |-> s, f |-> Done(f, Prevented(f.h))]
           ELSE [s |-> s, f |-> Goto(f, "load10")]
      [] f.pc = "load10" ->
           [s |-> s, f |-> [f EXCEPT !.pc = "store10", !.tmp = s.progress]]
      [] f.pc = "store10" ->
           [s |-> [s EXCEPT !.progress = IF f.doubles THEN Add(f.tmp, Float(10)) ELSE f.tmp + 10],
            f |-> Goto(f, "range")]
      [] f.pc = "range" ->
           IF f.nom = NoValue THEN [s |-> s, f |-> Done(f, BrainReturn(f, "TypeError"))]
           ELSE IF f.mode > f.nom THEN [s |-> s, f |-> Done(f, BrainReturn(f, ""))]
           ELSE [s |-> s, f |-> Goto(f, "brain")]
      [] f.pc = "brain" ->
           IF s.dcp1 = None THEN [s |-> s, f |-> Done(f, BrainReturn(f, ErrAttribute))]
           ELSE [s |-> s,
                 f |-> [f EXCEPT !.pc = "load", !.brains = f.brains + 1,
                                 !.call = [fig |-> "Brain", df1 |-> Df(s.dcp1), order |-> f.mode,
                                           coords_2d |-> s.dcp1.atlas,
                                           df2 |-> IF s.dcp2 # None THEN Df(s.dcp2) ELSE None]]]
      [] f.pc = "load" ->
           [s |-> s, f |-> [f EXCEPT !.pc = "store", !.tmp = s.progress]]
      [] f.pc = "store" ->
           [s |-> [s EXCEPT !.progress = IF f.doubles THEN Add(f.tmp, PerModeDoubles[f.nom])
                                         ELSE f.tmp + PerMode(f.nom)],
            f |-> [f EXCEPT !.pc = "range", !.mode = f.mode + 1]]

(***************************************************************************)
(* progress: the progress bar, polled by the progress-interval             *)
(***************************************************************************)

\* A Python number as str.format prints it: an int ("5") or a float ("5.0").
Number(n, float) == [n |-> n, float |-> float]

\* self.progress is the int 0 of __init__ and rst until compute_brain adds
\* 10.0 to it; from then on it is a float (and positive).
IsFloat(progress) == progress # 0

\* progress as it is not: the counter taken modulo 100.
DisplayedModHundred(progress) == Number(progress % 100, IsFloat(progress))

\* min(self.progress % 110, 100): the first argument when it is not above 100
\* (min returns its first minimal argument), the int 100 otherwise.
Displayed(progress) ==
    IF progress % 110 <= 100 THEN Number(progress % 110, IsFloat(progress))
    ELSE Number(100, FALSE)

\* "{} %".format(prog if prog >= 5 else ""): the number printed (None when the
\* empty string is), and the text after it.
Label(prog) == [number |-> IF prog.n >= 5 THEN prog ELSE None, suffix |-> " %"]

ProgressFrame(n) == [h |-> "progress", pc |-> "progress", ret |-> None, n |-> n]

ProgressStep(s, f) ==
    [s |-> s,
     f |-> Done(f, [h |-> "progress", prevented |-> FALSE, raised |-> "",
                    value |-> Displayed(s.progress), label |-> Label(Displayed(s.progress))])]

(***************************************************************************)
(* update_logs                                                             *)
(***************************************************************************)

\* self.logfile.read().split('\n'): every line of the file ends with a
\* newline, so the split leaves one empty string after the unread lines (and
\* the empty string alone when nothing was written).
ReadLines(logfile) == SubSeq(logfile.lines, logfile.read + 1, Len(logfile.lines)) \o << "" >>

UpdateLogsFrame(interval, console) ==
    [h |-> "update_logs", pc |-> "update_logs", ret |-> None, interval |-> interval, console |-> console]

UpdateLogsStep(s, f) ==
    IF f.console # None
    THEN [s |-> [s EXCEPT !.logfile.read = Len(s.logfile.lines)],
          f |-> Done(f, [h |-> "update_logs", prevented |-> FALSE, raised |-> "",
                         console |-> [f.console EXCEPT !.items =
                                        @ \o [i \in 1..Len(ReadLines(s.logfile)) |-> [tag |-> "Tbody", children |-> ReadLines(s.logfile)[i]]]]])]
    ELSE [s |-> s,
          f |-> Done(f, [h |-> "update_logs", prevented |-> FALSE, raised |-> "", console |-> None])]

(***************************************************************************)
(* Serving a request                                                       *)
(***************************************************************************)

\* One step of the handler of frame f.
Step(s, f) ==
    CASE f.h = "upload" -> UploadStep(s, f)
      [] f.h = "validate" -> ValidateStep(s, f)
      [] f.h = "rst" -> RstStep(s, f)
      [] f.h = "imag_switch" -> ImagStep(s, f)
      [] f.h = "input_setting" -> SettingStep(s, f)
      [] f.h = "compute_spectre" -> SpectreStep(s, f)
      [] f.h = "compute_timeplot" -> TimeplotStep(s, f)
      [] f.h = "compute_radar" -> RadarStep(s, f)
      [] f.h = "compute_brain" -> BrainStep(s, f)
      [] f.h = "progress" -> ProgressStep(s, f)
      [] f.h = "update_logs" -> UpdateLogsStep(s, f)

\* The handler of frame f run to its end without interruption (the singleton
\* set binds the result of the step, which is computed once).
RECURSIVE Run(_, _)
Run(s, f) ==
    IF f.pc = "done" THEN [s |-> s, f |-> f]
    ELSE CHOOSE r \in {Run(n.s, n.f) : n \in {Step(s, f)}} : TRUE

\* What the finished request answers.
Return(f) == IF f.h = "upload" THEN UploadReturn(f) ELSE f.ret

(***************************************************************************)
(* The inputs of the model                                                 *)
(***************************************************************************)

\* The sampling-time input: cleared, or its default.
Times == {NoValue, DefaultTime}

\* The approx-deg input: cleared, or its default.
ApproxDegs == {NoValue, DefaultApproxDeg}

\* The number-of-modes input: cleared, zero, or its default.
Noms == {NoValue, 0, DefaultNom}

\* The number-of-modes input of the Brain requests of Spec: its default.
BrainNoms == {DefaultNom}

\* Which external call of a request raises: none (0), or the k-th it makes
\* (the first raise ends the handler).
Fails == 0..Cardinality(UploadCalls)

\* The Checklist's values.
Switches == {<<>>, << 1 >>}

\* n_clicks after a click; the handlers only test it against None.
Clicked(n) == IF n = NoValue THEN 1 ELSE n

(***************************************************************************)
(* Spec: requests served one at a time, each handler run to its end        *)
(***************************************************************************)

Init ==
    /\ self = InitSelf
    /\ ui = InitUI
    /\ ev = Prevented("rst")
    /\ threads = {}

\* The browser sends the request of frame f with the layout in state ui1; the
\* server runs the handler and the browser applies what it returns (rst
\* returns a fresh layout).
Answer(r, ui1) ==
    LET ret == Return(r.f)
    IN  /\ self' = r.s
        /\ ev' = ret
        /\ ui' = IF ret.h = "rst" /\ ~ret.prevented THEN ret.layout
                 ELSE IF ret.h = "update_logs" THEN [ui1 EXCEPT !.log = ret.console]
                 ELSE ui1
        /\ UNCHANGED threads

Serve(f, ui1) == \E g \in {f} : \E r \in {Run(self, g)} : Answer(r, ui1)

\* modeSelected: the user picks a setting.
SelectSetting ==
    \E v \in Settings :
        /\ v # ui.setting
        /\ Serve(SettingFrame(v), [ui EXCEPT !.setting = v])

\* The layout after batch b is dropped on upload region slot.
Dropped(slot, b) ==
    IF slot = 1 THEN [ui EXCEPT !.contents1 = Contents(b)]
    ELSE [ui EXCEPT !.contents2 = Contents(b)]

\* The upload request the layout ui1 sends.
UploadRequest(ui1, approx_deg, fail) ==
    UploadFrame(ui1.contents1, ui1.contents2, ui1.time, ui1.setting, approx_deg, fail)

\* The external calls the upload request of ui1 makes when none of them
\* raises.
CallsMade(ui1, approx_deg) ==
    CHOOSE n \in {Run(self, g).f.calls : g \in {UploadRequest(ui1, approx_deg, 0)}} : TRUE

\* The upload request of the layout ui1 is served.  Requests that differ only
\* in an input they never use are taken once: the approx-deg input is its
\* default unless a match can read it, a cleared approx-deg input is taken
\* with no call raising (the calls before it is read are those of the default
\* and none follows), and the call that is to raise is one the request makes.
ServeUpload(ui1) ==
    \E a \in ApproxDegs :
        /\ a = DefaultApproxDeg \/ (ui1.setting = MatchModes /\ ui1.contents2 # None)
        /\ \E fail \in 0..(IF a = DefaultApproxDeg THEN CallsMade(ui1, a) ELSE 0) :
               /\ fail \in Fails
               /\ Serve(UploadRequest(ui1, a, fail), ui1)

\* filesUploaded: the user drops a batch on an upload region that is shown.
UploadFiles ==
    \E slot \in {1, 2}, b \in Batches :
        /\ IF slot = 1 THEN InputSetting(ui.setting).upload1
           ELSE InputSetting(ui.setting).upload2
        /\ ServeUpload(Dropped(slot, b))

\* The user edits the sampling time: upload is called with the contents held.
ChangeSamplingTime ==
    \E t \in Times :
        /\ t # ui.time
        /\ ServeUpload([ui EXCEPT !.time = t])

\* The user clicks Run: the five callbacks on run's n_clicks are requested;
\* each is served by its own action below.
ClickRun ==
    /\ ui.run = NoValue
    /\ ui' = [ui EXCEPT !.run = Clicked(ui.run)]
    /\ UNCHANGED <<self, ev, threads>>

\* runRequested.
Validate == Serve(ValidateFrame(ui.run, ui.setting), ui)

\* The figure requests.  Requests that differ only in an input they never
\* read are taken once: the renderer is reached, and so can raise, only on a
\* valid session after a click on Run, and it raises before number-of-modes
\* is read; without a click or on a session not valid number-of-modes is not
\* read either.
ComputeSpectre ==
    \E raises \in BOOLEAN :
        /\ raises => self.valid
        /\ Serve(SpectreFrame(ui.run, raises), ui)

ComputeTimeplot ==
    \E nom \in Noms, raises \in BOOLEAN :
        /\ (raises \/ ~self.valid \/ ui.run = NoValue) => nom = DefaultNom
        /\ raises => self.valid
        /\ Serve(TimeplotFrame(ui.run, nom, raises), ui)

ComputeRadar ==
    \E nom \in Noms, raises \in BOOLEAN :
        /\ (raises \/ ~self.valid \/ ui.run = NoValue) => nom = DefaultNom
        /\ raises => self.valid
        /\ Serve(RadarFrame(ui.run, nom, raises), ui)

ComputeBrain ==
    \E nom \in BrainNoms :
        /\ self.progress + 100 <= MaxProgress
        /\ Serve(BrainFrame(ui.run, nom), ui)

\* resetRequested.
ClickReset == Serve(RstFrame(Clicked(ui.reset)), [ui EXCEPT !.reset = Clicked(ui.reset)])

\* The user flips the imaginary-values switch.
ImagSwitch == \E switch \in Switches : Serve(ImagFrame(switch), ui)

\* progressTick: the interval fires.
ProgressTick == Serve(ProgressFrame(0), ui)

Next ==
    \/ SelectSetting
    \/ UploadFiles
    \/ ChangeSamplingTime
    \/ ClickRun
    \/ Validate
    \/ ComputeSpectre
    \/ ComputeTimeplot
    \/ ComputeRadar
    \/ ComputeBrain
    \/ ClickReset
    \/ ImagSwitch
    \/ ProgressTick

Spec == Init /\ [][Next]_vars

(***************************************************************************)
(* SpecThreaded: app.run_server in its own thread, one server thread per   *)
(* request, no lock around the session: the statement groups of the        *)
(* requests being served interleave                                        *)
(***************************************************************************)

\* The requests the model lets the server hold at once.
MaxThreads == 2

ThreadIds == 1..MaxThreads

Free == {i \in ThreadIds : \A t \in threads : t.id # i}

\* The browser sends the request of frame f, the layout becoming ui1; a server
\* thread takes it.
Spawn(f, ui1) ==
    /\ Free # {}
    /\ threads' = threads \cup {[id |-> CHOOSE i \in Free : \A j \in Free : i <= j, f |-> f]}
    /\ ui' = ui1
    /\ UNCHANGED <<self, ev>>

\* The uploads of SpecThreaded: the well-formed batch, no call raising, on a
\* region that is shown.
RequestUpload ==
    \E slot \in {1, 2} :
        /\ IF slot = 1 THEN InputSetting(ui.setting).upload1
           ELSE InputSetting(ui.setting).upload2
        /\ Spawn(UploadRequest(Dropped(slot, 1), DefaultApproxDeg, 0), Dropped(slot, 1))

\* The settings of SpecThreaded.
ThreadedSettings == {Analysis}

RequestSetting ==
    \E v \in ThreadedSettings :
        /\ v # ui.setting
        /\ Spawn(SettingFrame(v), [ui EXCEPT !.setting = v])

RequestValidate == ui.run # NoValue /\ Spawn(ValidateFrame(ui.run, ui.setting), ui)

\* The Brain requests in flight.
Brains == {t \in threads : t.f.h = "compute_brain"}

\* No progress value, in the session or loaded by a Brain request, from which
\* the Brain requests in flight and one more could pass MaxProgress.
Headroom ==
    \A p \in {self.progress} \cup {t.f.tmp : t \in Brains} :
        p + 100 * (Cardinality(Brains) + 1) <= MaxProgress

RequestBrain ==
    /\ ui.run # NoValue
    /\ Headroom
    /\ Spawn(BrainFrame(ui.run, 1), ui)

RequestReset == Spawn(RstFrame(Clicked(ui.reset)), ui)

\* A server thread executes the next statement group of its handler.
StepThread ==
    \E t \in threads :
        /\ t.f.pc # "done"
        /\ \E n \in {Step(self, t.f)} :
               /\ self' = n.s
               /\ threads' = (threads \ {t}) \cup {[id |-> t.id, f |-> n.f]}
        /\ UNCHANGED <<ui, ev>>

\* A handler has returned: the response reaches the browser.
Respond ==
    \E t \in threads :
        /\ t.f.pc = "done"
        /\ threads' = threads \ {t}
        /\ ev' = Return(t.f)
        /\ ui' = IF t.f.h = "rst" /\ ~Return(t.f).prevented THEN Return(t.f).layout ELSE ui
        /\ UNCHANGED self

ThreadedNext ==
    \/ RequestSetting
    \/ RequestUpload
    \/ ClickRun
    \/ RequestValidate
    \/ RequestBrain
    \/ RequestReset
    \/ StepThread
    \/ Respond

SpecThreaded == Init /\ [][ThreadedNext]_vars

(***************************************************************************)
(* SpecNoModes: a match target is uploaded at every approximation degree,  *)
(* the reference being held; the request is followed statement group by    *)
(* statement group                                                         *)
(***************************************************************************)

\* The approx-deg input as the interface means it: an integer percentage.
Degrees == 0..100

\* Match targets of either atlas: a .mat file holding matrix 1, a .csv file
\* that parses to matrix 2.
Targets ==
    {<< "one.mat" >>, << "table.csv" >>}

\* The upload of the reference batch under Mode Matching, from a fresh session.
ReferenceUpload ==
    Run(InitSelf, UploadFrame(Contents(1), None, DefaultTime, MatchModes, DefaultApproxDeg, 0))

ReferenceUI == [InitUI EXCEPT !.setting = MatchModes, !.contents1 = Contents(1)]

InitNoModes ==
    /\ self = ReferenceUpload.s
    /\ ui = ReferenceUI
    /\ ev = Return(ReferenceUpload.f)
    /\ threads = {}

\* The user sets the approximation degree and drops the first target on
\* region 2.
RequestMatch ==
    /\ threads = {}
    /\ self.match_group = None
    /\ \E d \in Degrees, files \in Targets :
           \E ui1 \in {[ui EXCEPT !.contents2 = [tag |-> "contents", files |-> files]]} :
               Spawn(UploadRequest(ui1, d, 0), ui1)

NoModesNext ==
    \/ RequestMatch
    \/ StepThread
    \/ Respond

SpecNoModes == InitNoModes /\ [][NoModesNext]_vars

(***************************************************************************)
(* SpecParse: batches of every make-up are dropped on region 1 under        *)
(* Analysis; the request is followed statement group by statement group,   *)
(* so that the locals of _parse_files are in view                          *)
(***************************************************************************)

\* The largest batch of SpecParse.
MaxFiles == 2

\* The files of SpecParse: .mat containers holding one matrix, two matrices
\* and none after their metadata keys, a .csv table, a .csv text without
\* data, and a file that is neither.
ParseFiles == {"one.mat", "two.mat", "meta.mat", "table.csv", "empty.csv", "notes.txt"}

ParseBatches == UNION {[1..n -> ParseFiles] : n \in 1..MaxFiles}

InitParse ==
    /\ self = InitSelf
    /\ ui = [InitUI EXCEPT !.setting = Analysis]
    /\ ev = Return(Run(InitSelf, SettingFrame(Analysis)).f)
    /\ threads = {}

\* The user drops a batch on region 1.
RequestParse ==
    /\ threads = {}
    /\ \E files \in ParseBatches :
           \E ui1 \in {[ui EXCEPT !.contents1 = [tag |-> "contents", files |-> files]]} :
               Spawn(UploadRequest(ui1, DefaultApproxDeg, 0), ui1)

ParseNext ==
    \/ RequestParse
    \/ StepThread
    \/ Respond

SpecParse == InitParse /\ [][ParseNext]_vars

(***************************************************************************)
(* SpecDescriptor: batches of files that hold a matrix, the content         *)
(* descriptor of one of them with a second comma, are dropped on region 1  *)
(***************************************************************************)

DescriptorBatches ==
    UNION {[1..n -> {"one.mat", "table.csv", "commas.csv"}] : n \in 1..MaxFiles}

RequestDescriptor ==
    /\ threads = {}
    /\ \E files \in DescriptorBatches :
           \E ui1 \in {[ui EXCEPT !.contents1 = [tag |-> "contents", files |-> files]]} :
               Spawn(UploadRequest(ui1, DefaultApproxDeg, 0), ui1)

DescriptorNext ==
    \/ RequestDescriptor
    \/ StepThread
    \/ Respond

SpecDescriptor == InitParse /\ [][DescriptorNext]_vars

(***************************************************************************)
(* SpecReference: batches of every make-up are dropped on region 1 and      *)
(* match or comparison targets on region 2, under every setting; requests  *)
(* are served one at a time                                                *)
(***************************************************************************)

\* The batches dropped on region 1: each file of SpecParse alone, and the
\* well-formed batch of two files.
ReferenceBatches == {<< file >> : file \in ParseFiles} \cup {Files(1)}

\* The upload request of the layout ui1 is served, the approx-deg input at
\* its default; none of its external calls raises, or one of the three made
\* for slot 1 does (Decomposition, run, _create_table).
ServeReference(ui1) ==
    \E fail \in 0..3 :
        /\ fail <= CallsMade(ui1, DefaultApproxDeg)
        /\ Serve(UploadRequest(ui1, DefaultApproxDeg, fail), ui1)

UploadReference ==
    \E files \in ReferenceBatches :
        /\ InputSetting(ui.setting).upload1
        /\ ServeReference([ui EXCEPT !.contents1 = [tag |-> "contents", files |-> files]])

\* A comparison group or match target is dropped on region 2.
UploadSecond ==
    /\ InputSetting(ui.setting).upload2
    /\ ServeReference([ui EXCEPT !.contents2 = [tag |-> "contents", files |-> << "table.csv" >>]])

ReferenceNext ==
    \/ SelectSetting
    \/ UploadReference
    \/ UploadSecond

SpecReference == Init /\ [][ReferenceNext]_vars

(***************************************************************************)
(* SpecComparison: well-formed batches that differ from one another are    *)
(* dropped on both regions, under every setting; requests are served one   *)
(* at a time                                                               *)
(***************************************************************************)

\* The page is loaded: input_setting is called with the value the radio
\* items hold, None until the user picks one.
LoadPage ==
    /\ ui.setting = NoValue
    /\ Serve(SettingFrame(ui.setting), ui)

UploadFirst ==
    \E files \in Targets :
        /\ InputSetting(ui.setting).upload1
        /\ ServeReference([ui EXCEPT !.contents1 = [tag |-> "contents", files |-> files]])

UploadGroup ==
    \E files \in Targets :
        /\ InputSetting(ui.setting).upload2
        /\ ServeReference([ui EXCEPT !.contents2 = [tag |-> "contents", files |-> files]])

ComparisonNext ==
    \/ LoadPage
    \/ SelectSetting
    \/ ChangeSamplingTime
    \/ UploadFirst
    \/ UploadGroup

SpecComparison == Init /\ [][ComparisonNext]_vars

(***************************************************************************)
(* SpecLog: the log relay.  The imaginary-values switch is flipped, each   *)
(* flip logging its line; the log interval fires; the session is reset     *)
(***************************************************************************)

\* The lines the model lets the log file hold, and the entries it lets the
\* log Div hold.
MaxLines == 3
MaxShown == 7

\* imag_switch with its logging.info(message).
ImagSwitchLogged ==
    \E switch \in Switches :
        /\ Len(self.logfile.lines) < MaxLines
        /\ \E r \in {Run(self, ImagFrame(switch))} :
               Answer([r EXCEPT !.s.logfile.lines =
                          Append(@, IF r.s.imag THEN "Plotting imaginary values"
                                    ELSE "Not plotting imaginary values")], ui)

\* logTick: the log-update interval fires with the children the log Div holds.
LogTick ==
    /\ Len(ui.log.items) + Len(ReadLines(self.logfile)) <= MaxShown
    /\ Serve(UpdateLogsFrame(0, ui.log), ui)

LogNext ==
    \/ ImagSwitchLogged
    \/ LogTick
    \/ ClickReset

SpecLog == Init /\ [][LogNext]_vars

(***************************************************************************)
(* SpecProgress: progress polled on a validated Analysis session whose     *)
(* counter holds any value the Brain computations can leave in it          *)
(***************************************************************************)

\* The largest counter value of SpecProgress.
MaxCounter == 260

\* The counter is 0 until the first Brain request adds 10.0; with 90 modes a
\* mode adds 1.0, and a request that starts while another runs adds to the
\* value it finds.
CounterValues == {0} \cup 10..MaxCounter

\* The session after Analysis was selected, the well-formed batch uploaded to
\* slot 1 and Run clicked.
ValidatedSession ==
    Run(Run(InitSelf,
            UploadFrame(Contents(1), None, DefaultTime, Analysis, DefaultApproxDeg, 0)).s,
        ValidateFrame(1, Analysis)).s

ValidatedUI == [InitUI EXCEPT !.setting = Analysis, !.contents1 = Contents(1), !.run = 1]

InitProgress ==
    /\ self \in {[ValidatedSession EXCEPT !.progress = p] : p \in CounterValues}
    /\ ui = ValidatedUI
    /\ ev = Run(ValidatedSession, ValidateFrame(1, Analysis)).f.ret
    /\ threads = {}

ProgressNext == ProgressTick

SpecProgress == InitProgress /\ [][ProgressNext]_vars

(***************************************************************************)
(* SpecBrain: Brain figures are computed for every number of modes up to   *)
(* MaxNom on a validated Analysis session, whose progress is held as the   *)
(* double Python makes of it; the session is reset and set up again        *)
(***************************************************************************)

InitBrain ==
    /\ self = [ValidatedSession EXCEPT !.progress = Float(0)]
    /\ ui = ValidatedUI
    /\ ev = Run(ValidatedSession, ValidateFrame(1, Analysis)).f.ret
    /\ threads = {}

\* The Brain request of a session whose progress is held as a double: the
\* sums of compute_brain are then the double additions of Python.
ComputeBrainDoubles ==
    \E nom \in 0..MaxNom :
        /\ Truncate(self.progress) + 100 <= MaxProgress
        /\ Serve([BrainFrame(ui.run, nom) EXCEPT !.doubles = TRUE], ui)

\* resetRequested; the int 0 that rst assigns to progress is held as 0.0.
ResetDoubles ==
    \E r \in {Run(self, RstFrame(Clicked(ui.reset)))} :
        Answer([r EXCEPT !.s.progress = Float(0)], ui)

BrainNext ==
    \/ ComputeBrainDoubles
    \/ ResetDoubles
    \/ SelectSetting
    \/ UploadFirst
    \/ ClickRun
    \/ Validate

SpecBrain == InitBrain /\ [][BrainNext]_vars

(***************************************************************************)
(* SpecReset: on a validated Analysis session an upload or a Brain request *)
(* is being served, statement group by statement group, when Reset is      *)
(* clicked; the server threads of the two requests interleave              *)
(***************************************************************************)

InitReset ==
    /\ self = ValidatedSession
    /\ ui = ValidatedUI
    /\ ev = Run(ValidatedSession, ValidateFrame(1, Analysis)).f.ret
    /\ threads = {}

\* A batch is dropped on region 1, or Run is clicked again: the request is
\* sent while the server holds no other.
RequestWriter ==
    /\ threads = {}
    /\ \/ \E ui1 \in {[ui EXCEPT !.contents1 = Contents(1)]} :
              Spawn(UploadRequest(ui1, DefaultApproxDeg, 0), ui1)
       \/ /\ self.progress + 100 <= MaxProgress
          /\ Spawn(BrainFrame(Clicked(ui.run), 1), [ui EXCEPT !.run = Clicked(ui.run)])

\* resetRequested while an upload or a Brain handler is still running.
RequestResetWhileRunning ==
    /\ \E t \in threads : t.f.h \in {"upload", "compute_brain"} /\ t.f.pc # "done"
    /\ \A t \in threads : t.f.h # "rst"
    /\ Spawn(RstFrame(Clicked(ui.reset)), ui)

ResetNext ==
    \/ RequestWriter
    \/ RequestResetWhileRunning
    \/ StepThread
    \/ Respond

SpecReset == InitReset /\ [][ResetNext]_vars

(***************************************************************************)
(* Properties                                                              *)
(***************************************************************************)

Populated(x) == x # None

\* The step is an upload request served to its end (not prevented).
UploadServed == ev'.h = "upload" /\ ~ev'.prevented /\ ui'.run = ui.run

\* The step is a validate request served after a click on Run.
ValidateServed == ev'.h = "validate" /\ ~ev'.prevented /\ ui' = ui

FigureHandlers == {"compute_spectre", "compute_timeplot", "compute_radar", "compute_brain"}

\* The step is a figure request served.
FigureServed == ev'.h \in FigureHandlers /\ ui' = ui

\* C1: in every reachable state dcp2 is populated only while the selected
\* setting is Comparison, and match_group, match_df, match_x and match_y are
\* populated only while it is MatchModes.
C1_SlotsFollowSetting ==
    /\ Populated(self.dcp2) => ui.setting = Comparison
    /\ (\/ Populated(self.match_group) \/ Populated(self.match_df)
        \/ Populated(self.match_x) \/ Populated(self.match_y)) => ui.setting = MatchModes

\* C2: in every reachable state at most one of dcp2 and match_df is
\* populated, also after the setting was switched between uploads without a
\* reset.
C2_ComparisonOrMatchResult == ~(Populated(self.dcp2) /\ Populated(self.match_df))

\* C3: a MatchModes upload to slot 2 alone, handled while dcp1 and match_group
\* are absent and answered with the missing-reference message, leaves
\* match_group unset.
C3_MissingReferenceLeavesTargetUnset ==
    [][(/\ UploadServed
        /\ ui'.setting = MatchModes
        /\ ui'.contents1 = None /\ Populated(ui'.contents2)
        /\ ~Populated(self.dcp1) /\ ~Populated(self.match_group)
        /\ ev'.message = ErrMissingReference)
       => ~Populated(self'.match_group)]_vars

\* C4: when an upload for one slot alone ends with an error, every session
\* field (the slot's field and the atlas among them) keeps the value it had
\* before the request; only the message changes.
C4_FailedUploadKeepsSession ==
    [][(/\ UploadServed
        /\ ev'.error
        /\ ui'.contents1 = None \/ ui'.contents2 = None)
       => self' = self]_vars

\* C5: after a reset, whatever the state it was requested in, every session
\* field has the value it has at application start (so a second reset gives
\* the state of the first), and the layout is the fresh one.
C5_ResetGivesInitialSession ==
    (ev.h = "rst" /\ ~ev.prevented) =>
        /\ self = InitSelf
        /\ [ui EXCEPT !.run = NoValue] = InitUI

\* C5 witness: a reset has been served.
C5_ResetServed == ev.h = "rst" /\ ~ev.prevented /\ self.progress = 0 /\ ~self.imag

\* The slots the setting requires are populated.
Required(s, setting) ==
    \/ setting = Analysis /\ Populated(s.dcp1)
    \/ setting = Comparison /\ Populated(s.dcp1) /\ Populated(s.dcp2)
    \/ setting = MatchModes /\ Populated(s.dcp1) /\ Populated(s.match_df)

\* C6: a validate request sets valid exactly when the setting is chosen and
\* the slots it requires are populated, returning an empty message; otherwise
\* it returns a non-empty message and leaves valid as it was.  It changes no
\* other field.
C6_ValidExactlyWhenRequiredSlots ==
    [][ValidateServed =>
        /\ IF Required(self, ui.setting)
           THEN self'.valid /\ ev'.message = <<>> /\ ~ev'.error
           ELSE self'.valid = self.valid /\ ev'.message # <<>> /\ ev'.error
        /\ [self' EXCEPT !.valid = self.valid] = self]_vars

\* C6 witness: validate has accepted a MatchModes session, and the session
\* holds both the reference and the match table.
C6_MatchModesValidated ==
    /\ ev.h = "validate" /\ ~ev.prevented /\ ~ev.error
    /\ ui.setting = MatchModes /\ self.valid
    /\ Populated(self.dcp1) /\ Populated(self.match_df)

\* C7: a figure handler served while valid is false, or before any click on
\* Run, produces no update and changes no session field; so a renderer is
\* called only in states where valid is true.
C7_FiguresGatedOnValid ==
    [][(FigureServed /\ (~self.valid \/ ui.run = NoValue))
       => (ev'.prevented /\ self' = self)]_vars

\* C7 witness: Run was clicked on a session that holds a decomposition but
\* is not valid, and the figure handler served last produced no update.
C7_FigureSuppressed ==
    /\ ev.h \in FigureHandlers /\ ev.prevented
    /\ ui.run # NoValue /\ ~self.valid /\ Populated(self.dcp1)

\* C9: a MatchModes upload that attempts a match (slot 2 alone, its guard
\* open) while dcp1 is absent ends with the missing-reference message,
\* whatever the target batch.
C9_MatchWithoutReferenceIsMissingReference ==
    [][(/\ UploadServed
        /\ ui'.setting = MatchModes
        /\ ui'.contents1 = None /\ Populated(ui'.contents2)
        /\ ~Populated(self.dcp1)
        /\ ~Populated(self.dcp2) \/ ~Populated(self.match_group))
       => (ev'.error /\ ev'.message = ErrMissingReference)]_vars

\* C10: in Analysis an upload to slot 1 that succeeds populates dcp1 and
\* leaves valid false; validate on such a session sets valid and returns an
\* empty message; and valid turns true in no step but a validate request.
C10_ValidOnlyThroughValidate ==
    [][/\ (/\ UploadServed /\ ui'.setting = Analysis /\ Populated(ui'.contents1)
           /\ ~ev'.error /\ ~self.valid)
          => (Populated(self'.dcp1) /\ ~self'.valid)
       /\ (ValidateServed /\ ui.setting = Analysis /\ Populated(self.dcp1))
          => (self'.valid /\ ev'.message = <<>>)
       /\ (~self.valid /\ self'.valid) => ValidateServed]_vars

\* C10 witness: an Analysis session whose reference was uploaded and then
\* validated.
C10_AnalysisValidated ==
    /\ ev.h = "validate" /\ ~ev.prevented /\ ev.message = <<>>
    /\ ui.setting = Analysis /\ self.valid /\ Populated(self.dcp1)

\* The requests whose computation is in flight: an upload that has called the
\* library and not yet returned, a Brain request past its gate.
InFlight ==
    {t \in threads :
        /\ t.f.pc # "done"
        /\ \/ t.f.h = "upload" /\ t.f.calls > 0
           \/ t.f.h = "compute_brain" /\ t.f.pc # "gate"}

\* C8: at most one decomposition, match or Brain computation is in flight at
\* any time: no two session-mutating handlers are being executed at once.
C8_OneComputationInFlight == Cardinality(InFlight) <= 1

\* C11: no handler lets an error of the ingestion or of a library call
\* escape: such an error is never what a callback fails with.
C11_NoLibraryErrorEscapes ==
    ev.raised \notin {ErrLibrary, ErrNoMatrix, ErrCsv, ErrUnpack}

\* The inputs the setting requires and the session lacks (the setting itself
\* when none is chosen).
MissingInputs(s, setting) ==
    IF setting = NoValue THEN {"setting"}
    ELSE ({"dcp1"} \cup (IF setting = Comparison THEN {"dcp2"} ELSE {})
                  \cup (IF setting = MatchModes THEN {"match_df"} ELSE {}))
         \ {field \in {"dcp1", "dcp2", "match_df"} : Populated(s[field])}

\* C12: the message validate returns has one part per missing input (and the
\* closing pointer to the log when any is missing).
C12_MessageNamesEveryMissingInput ==
    (ev.h = "validate" /\ ~ev.prevented) =>
        Len(ev.message) = IF MissingInputs(self, ui.setting) = {} THEN 0
                          ELSE Cardinality(MissingInputs(self, ui.setting)) + 1

\* C13: the progress counter is within 0..100 in every reachable state.
C13_ProgressWithinHundred == self.progress \in 0..100

Min(a, b) == IF a <= b THEN a ELSE b

\* A label with no text at all.
BlankLabel == [number |-> None, suffix |-> ""]

\* The label "<n> %", n printed as an int (float FALSE: "5 %") or as a float
\* ("5.0 %").
PercentLabel(n, float) == [number |-> Number(n, float), suffix |-> " %"]

\* C14: progress returns min(progress mod 110, 100), a value within 0..100,
\* with a blank label when that value is below 5 and a label showing the
\* value otherwise, whatever the counter holds; it changes no session field.
C14_DisplayedPercentage ==
    [][ev'.h = "progress" =>
        /\ ev'.value.n = Min(self.progress % 110, 100)
        /\ ev'.value.n \in 0..100
        /\ IF ev'.value.n < 5 THEN ev'.label = BlankLabel
           ELSE ev'.label.number = ev'.value /\ ev'.label.suffix = " %"
        /\ self' = self]_vars

\* C15 as stated: with the counter at 105 progress displays 5 with the label
\* "5 %", and with the counter at 250 it displays 30 with the label "30 %".
C15_DisplayedAt105And250 ==
    ev.h = "progress" =>
        /\ self.progress = 105 => (ev.value.n = 5 /\ ev.label = PercentLabel(5, FALSE))
        /\ self.progress = 250 => (ev.value.n = 30 /\ ev.label = PercentLabel(30, FALSE))

\* C15 amended: with the counter at 105 progress displays 100 (105 mod 110 is
\* 105, capped by min) with the label "100 %", and with the counter at 250
\* it displays 30 with the label "30.0 %" (the counter is a float).
C15_Displayed100And30 ==
    ev.h = "progress" =>
        /\ self.progress = 105 =>
              (ev.value = Number(100, FALSE) /\ ev.label = PercentLabel(100, FALSE))
        /\ self.progress = 250 =>
              (ev.value = Number(30, TRUE) /\ ev.label = PercentLabel(30, TRUE))

\* C15 witness: progress has answered with the counter at 105.
C15_PolledAt105 == ev.h = "progress" /\ self.progress = 105 /\ ev.value.n = 100

\* C16: the mode count handed to compute_match is floor(degree/100 x atlas
\* size of the match target); it does not decrease as the degree grows, is 0
\* at degree 0 and the atlas size at degree 100.
C16_ModeCountIsFloor ==
    \A t \in threads :
        (t.f.h = "upload" /\ t.f.pc = "store_df") =>
            LET size == self.match_group.atlas.size
                n == t.f.ret.df.no_modes
            IN /\ n = (t.f.approx_deg * size) \div 100
               /\ \A d \in Degrees : d <= t.f.approx_deg => ModeCounts[d][size] <= n
               /\ t.f.approx_deg = 0 => n = 0
               /\ t.f.approx_deg = 100 => n = size

\* The _parse_files call of the slot-1 upload served by thread t is over.
Parsed(t) == t.f.h = "upload" /\ t.f.pc # "parse1"

\* The positions of the keys that do not begin with "__".
Qualifying(keys) == {i \in 1..Len(keys) : ~keys[i].dunder}

\* The matrix under the last qualifying key.
LastQualifying(keys) ==
    keys[CHOOSE i \in Qualifying(keys) : \A j \in Qualifying(keys) : j <= i].m

Supported == {".mat", ".csv"}

\* C17: the matrix taken from a .mat file is the entry of its last key not
\* beginning with "__"; a .mat file without such a key fails the batch with
\* "Invalid .mat file, no matrices inside." and no Decomposition is built.
C17_LastEntryOrNoMatrixFound ==
    \A t \in threads :
        Parsed(t) =>
            LET files == Zipped(t.f.contents1) IN
            /\ \A i \in 1..Len(t.f.data) :
                   files[i].suffix = ".mat" =>
                       /\ Qualifying(files[i].keys) # {}
                       /\ t.f.data[i] = LastQualifying(files[i].keys)
            /\ (\E i \in 1..Len(files) :
                    files[i].suffix = ".mat" /\ Qualifying(files[i].keys) = {}) =>
                   /\ t.f.pc = "done" /\ t.f.error
                   /\ t.f.message = ErrNoMatrix
                   /\ t.f.calls = 0 /\ t.f.ret = None

\* C17 witness: a batch with a .mat file of two matrices has been parsed and
\* its Decomposition built.
C17_TwoMatricesParsed ==
    \E t \in threads :
        /\ Parsed(t) /\ t.f.pc = "store1"
        /\ \E i \in 1..Len(Zipped(t.f.contents1)) :
               /\ Zipped(t.f.contents1)[i].suffix = ".mat"
               /\ Cardinality(Qualifying(Zipped(t.f.contents1)[i].keys)) = 2

\* C18: a batch of .csv files is parsed when every file holds a numeric table
\* with data, and fails with "Problem reading the csv file." when one of
\* them holds none.
C18_CsvParsedOrMalformed ==
    \A t \in threads :
        LET files == Zipped(t.f.contents1) IN
        (Parsed(t) /\ \A i \in 1..Len(files) : files[i].suffix = ".csv") =>
            IF \A i \in 1..Len(files) : files[i].m # EmptyArray
            THEN ~t.f.error /\ t.f.ret # None
            ELSE t.f.pc = "done" /\ t.f.error /\ t.f.message = ErrCsv

\* C19: the list handed to Decomposition holds one entry per .mat/.csv file
\* of the batch, in batch order, and nothing for a file of another suffix.
C19_OneEntryPerSupportedFile ==
    \A t \in threads :
        (Parsed(t) /\ t.f.calls >= 1) =>
            LET supported == SelectSeq(Zipped(t.f.contents1), LAMBDA x : x.suffix \in Supported)
            IN /\ Len(t.f.data) = Len(supported)
               /\ \A i \in 1..Len(supported) : t.f.data[i] = ParseFile(supported[i]).d

\* C20: when an upload request carries slot-1 contents that are parsed and
\* decomposed without an error, dcp1 is afterwards the decomposition of those
\* contents, run, whatever the setting and whatever the session held before.
C20_ReferenceIsNewBatch ==
    [][(/\ UploadServed
        /\ ui'.contents1 # None
        /\ ev'.at \notin {"parse1", "run1"})
       => self'.dcp1 = Ran(Decomposition(ParseLoop(ui'.contents1.files, <<>>).data, ui'.time))]_vars

\* C20 witness: an upload carrying both slots has replaced the reference of a
\* session that already held a comparison group.
C20_ReferenceReplaced ==
    /\ ev.h = "upload" /\ ~ev.error /\ ev.tab1 /\ ev.tab2
    /\ Populated(self.dcp1) /\ Populated(self.dcp2)
    /\ self.dcp1.data # self.dcp2.data

\* The batch held by contents is one _parse_files turns into a Decomposition.
Decomposes(contents) ==
    /\ contents # None
    /\ ParseLoop(contents.files, <<>>).ok
    /\ ~Rejected(ParseLoop(contents.files, <<>>).data)

\* C21: under Comparison, when an upload request carries slot-2 contents
\* that parse and decompose and the request ends without an error, dcp2 is
\* afterwards the decomposition of those contents, run, whatever the session
\* held before.
C21_ComparisonIsNewBatch ==
    [][(/\ UploadServed
        /\ ui'.setting = Comparison
        /\ Decomposes(ui'.contents2)
        /\ ui'.time # NoValue
        /\ ~ev'.error)
       => self'.dcp2 = Ran(Decomposition(ParseLoop(ui'.contents2.files, <<>>).data, ui'.time))]_vars

\* C22: what input_setting returned last shows upload region 1 exactly when
\* a setting is selected, upload region 2 exactly under Comparison and
\* MatchModes, and the approximation-degree input exactly under MatchModes;
\* with no setting selected all three are hidden.
C22_RegionsShownPerSetting ==
    ev.h = "input_setting" =>
        /\ ev.shown.upload1 = (ui.setting \in {Analysis, Comparison, MatchModes})
        /\ ev.shown.upload2 = (ui.setting \in {Comparison, MatchModes})
        /\ ev.shown.approx = (ui.setting = MatchModes)
        /\ ui.setting = NoValue => ev.shown = [upload1 |-> FALSE, upload2 |-> FALSE, approx |-> FALSE]

\* input_setting has answered for Comparison: both regions, no
\* approximation degree.
C22_ComparisonShown ==
    /\ ev.h = "input_setting"
    /\ ui.setting = Comparison
    /\ ev.shown = [upload1 |-> TRUE, upload2 |-> TRUE, approx |-> FALSE]

\* s is a prefix of t.
IsPrefix(s, t) == Len(s) <= Len(t) /\ SubSeq(t, 1, Len(s)) = s

\* C23: over every step, log ticks and resets included, the entries the log
\* Div held are still its first entries, in the same order, and its first
\* entry is the one application-start entry.
C23_LogOnlyGrows ==
    [][/\ IsPrefix(ui.log.items, ui'.log.items)
       /\ ui'.log.items[1] = AppStart
       /\ \A i \in 2..Len(ui'.log.items) : ui'.log.items[i] # AppStart]_vars

\* C24: when every .csv file of a batch has a content descriptor with at
\* least one comma and holds a numeric table after its first comma, the
\* batch is parsed into those tables, in order, a descriptor with a second
\* comma included: no file is rejected for its commas.
C24_DecodedAfterFirstComma ==
    \A t \in threads :
        LET files == Zipped(t.f.contents1) IN
        (/\ Parsed(t)
         /\ \A i \in 1..Len(files) :
                files[i].suffix = ".csv" /\ files[i].commas >= 1 /\ files[i].m > 0) =>
            /\ t.f.message # ErrUnpack
            /\ t.f.data = [i \in 1..Len(files) |-> files[i].m]

\* The comparison's df when the comparison is populated, None otherwise.
ComparisonDf == IF Populated(self.dcp2) THEN Df(self.dcp2) ELSE None

\* C25: whenever a figure handler has handed its inputs to the renderer,
\* compute_spectre handed it the two match series when match_group is
\* populated and otherwise the reference's df with the comparison's (None
\* when dcp2 is not populated); compute_timeplot, compute_radar and
\* compute_brain handed it the reference's df with the comparison's (None
\* when dcp2 is not populated).
C25_FigureInputs ==
    /\ (ev.h = "compute_spectre" /\ ~ev.prevented /\ ev.rendered # None) =>
           IF Populated(self.match_group)
           THEN ev.rendered = [fig |-> "Spectre.correlation",
                               Approximated |-> self.match_x, Real |-> self.match_y]
           ELSE /\ ev.rendered.fig = "Spectre"
                /\ ev.rendered.df1 = Df(self.dcp1)
                /\ ev.rendered.df2 = ComparisonDf
    /\ (ev.h \in {"compute_timeplot", "compute_radar"} /\ ~ev.prevented /\ ev.rendered # None) =>
           /\ ev.rendered.fig = (IF ev.h = "compute_timeplot" THEN "TimePlot" ELSE "Radar")
           /\ ev.rendered.df1 = Df(self.dcp1)
           /\ ev.rendered.df2 = ComparisonDf
    /\ (ev.h = "compute_brain" /\ ~ev.prevented /\ ev.call # None) =>
           /\ ev.call.fig = "Brain"
           /\ ev.call.df1 = Df(self.dcp1)
           /\ ev.call.df2 = ComparisonDf

\* C25 witness: compute_spectre has plotted the correlation of the match
\* series of a session whose match target is populated.
C25_CorrelationPlotted ==
    /\ ev.h = "compute_spectre" /\ ~ev.prevented /\ ev.raised = ""
    /\ Populated(self.match_group)
    /\ ev.rendered.fig = "Spectre.correlation"

\* C26: in every reachable state where valid is true and match_group is
\* populated, match_x and match_y are populated, so the two assertions of
\* compute_spectre hold whenever they are evaluated.
C26_MatchSeriesWhenValid ==
    (self.valid /\ Populated(self.match_group)) =>
        (Populated(self.match_x) /\ Populated(self.match_y))

\* C27: whenever validate answers with a deficiency message for the setting
\* selected, valid is false afterwards.
C27_DeficiencyClearsValid ==
    [][(ValidateServed /\ ~ev'.prevented /\ ev'.error) => ~self'.valid]_vars

\* C28: with requests served one at a time, in every reachable state valid
\* true implies dcp1 populated: a figure handler that passes the valid gate
\* finds the reference.
C28_ValidMeansReference ==
    self.valid => Populated(self.dcp1)

\* C28 witness: a figure handler passed the valid gate and rendered from the
\* reference.
C28_FigureReadsReference ==
    /\ ev.h \in FigureHandlers /\ ~ev.prevented /\ ev.raised = ""
    /\ self.valid /\ Populated(self.dcp1)

\* C29: with requests served one at a time, in every reachable state
\* match_df, match_x and match_y are all absent or all populated, and
\* when they are populated dcp1 and match_group are populated.
C29_MatchResultAllOrNothing ==
    /\ Populated(self.match_df) = Populated(self.match_x)
    /\ Populated(self.match_x) = Populated(self.match_y)
    /\ Populated(self.match_df) => (Populated(self.dcp1) /\ Populated(self.match_group))

\* C29 witness: an upload has stored a match result.
C29_MatchResultStored ==
    /\ ev.h = "upload" /\ ~ev.prevented /\ ~ev.error
    /\ Populated(self.match_df) /\ Populated(self.match_x) /\ Populated(self.match_y)
    /\ ui.setting = MatchModes

\* C30: under MatchModes, when the upload served last was rejected with the
\* missing-reference message and the next upload request carries slot-1
\* contents next to the slot-2 contents already held, and ends without an
\* error, then dcp1, match_group and match_df are populated afterwards.
C30_MatchAfterMissingReference ==
    [][(/\ ev.h = "upload" /\ ~ev.prevented /\ ev.message = ErrMissingReference
        /\ UploadServed
        /\ ui.setting = MatchModes /\ ui'.setting = MatchModes
        /\ Populated(ui.contents2) /\ ui'.contents2 = ui.contents2
        /\ Populated(ui'.contents1)
        /\ ~ev'.error)
       => (/\ Populated(self'.dcp1)
           /\ Populated(self'.match_group)
           /\ Populated(self'.match_df))]_vars

\* The digits of the doubles or exact sums x and y at one weight, in one
\* number of digits.
SameWeight(x, y) ==
    LET e == IF x.e <= y.e THEN x.e ELSE y.e
        n == IF Len(x.m) + x.e >= Len(y.m) + y.e
             THEN Len(x.m) + (x.e - e) ELSE Len(y.m) + (y.e - e)
    IN  [x |-> Aligned(x, e, n), y |-> Aligned(y, e, n)]

\* x = y and x <= y of the reals.
SameReal(x, y) == \E d \in {SameWeight(x, y)} : d.x = d.y

AtMost(x, y) ==
    \E d \in {SameWeight(x, y)} :
        \/ d.x = d.y
        \/ \E i \in 1..Len(d.x) :
               /\ d.x[i] < d.y[i]
               /\ \A j \in 1..(i - 1) : d.x[j] = d.y[j]

\* C31: progress decreases in no step but a reset; a Brain request that
\* built its figures for nom >= 1 modes leaves progress exactly 100 above
\* what it was, and one that had no mode to build (nom = 0) exactly 10.
C31_ProgressRaisedByHundred ==
    [][/\ ev'.h # "rst" => AtMost(self.progress, self'.progress)
       /\ (/\ ev'.h = "compute_brain" /\ ui' = ui
           /\ ~ev'.prevented /\ ev'.raised = "") =>
              SameReal(self'.progress,
                       ExactSum(self.progress,
                                IF ev'.rendered >= 1 THEN Float(100) ELSE Float(10)))]_vars

\* C32: when Reset was clicked while an upload or a Brain handler was still
\* running, then once both handlers have returned, and before anything else
\* is requested, the session is as __init__ leaves it: every field None,
\* progress 0, valid and imag false.
C32_ResetLeavesSessionEmpty ==
    (/\ \A t \in threads : t.f.pc = "done"
     /\ \E t \in threads : t.f.h = "rst" /\ ~t.f.ret.prevented
     /\ \E t \in threads : t.f.h \in {"upload", "compute_brain"}) =>
        self = InitSelf

====
